---- MODULE Spec2Model ----
(***************************************************************************)
(* TraderLens-AI / Tradl AI: the news-processing pipeline, the query       *)
(* engine and the dashboard.                                               *)
(*                                                                         *)
(* The LangGraph pipeline (ingest -> dedup -> ner -> impact -> sentiment   *)
(* -> storage) is modelled per article; several articles are in flight at  *)
(* once and interleave at node boundaries.  Similarities, confidences and  *)
(* sentiment scores are integers in hundredths (70 stands for 0.70).       *)
(*                                                                         *)
(* Spec        concurrent runs with failing dependencies                   *)
(* SerialSpec  one run at a time, extractor and classifier may raise       *)
(* ImpactSpec  the Impact Scorer applied to bounded entity lists           *)
(* SentimentSpec  the Sentiment Classifier applied to bounded inputs       *)
(* QuerySpec   the Query Engine applied to bounded queries, with and       *)
(*             without the RAG synthesis step                              *)
(* AppSpec     the dashboard (React App): navigation, searches, the        *)
(*             auto-refresh interval, responses settling in any order      *)
(* BookmarkSpec  the dashboard's bookmarks across reloads of the page      *)
(* UpvoteSpec  the dashboard's upvotes across feed loads and searches      *)
(*                                                                         *)
(* An action of the dashboard is one handler together with the render and  *)
(* the effects that follow it.                                             *)
(***************************************************************************)
EXTENDS Integers, Sequences, FiniteSets, TLC

\* ---------------------------------------------------------------- bounds
MaxArticles == 2
MaxContent == 1
MaxWorkers == 2
MaxRestores == 1
MaxFailures == 3
MaxEntities == 2
MaxImpacts == 3
MaxProbParts == 4
MaxQueryTokens == 2
MaxLimit == 2
MaxRequests == 2
MaxReloads == 1

ArticleIds == 1..MaxArticles
Contents == 0..MaxContent

\* ------------------------------------------------------ program constants
\* similarity literal of check_duplicate (the README and Settings give 0.70,
\* see dedup_threshold below)
DUPLICATE_THRESHOLD == 85
\* n_results of the ChromaDB query
N_RESULTS == 5
\* RetryConfig max_attempts
MAX_ATTEMPTS == 3
\* minimum cleaned content length
MIN_CONTENT_LENGTH == 50

\* None of Optional[str] for duplicate_cluster_id
NoCluster == 0

\* no content yet
NoContent == 0 - 1

\* None of Optional[float] for sentiment_score
NoScore == 0 - 1

\* None of Optional[EntityExtractionResult]
NoEntities == [none |-> TRUE, list |-> <<>>]

\* None of Optional[SentimentResult]
NoSentiment == [none |-> TRUE, label |-> "unset", score |-> NoScore]

\* the enrichment fields of a NewsState at the start of a run; "unset" and
\* NoScore stand for None
NewsState ==
    [entities |-> NoEntities, stock_impacts |-> <<>>,
     sentiment_label |-> "unset", sentiment_score |-> NoScore,
     low_confidence |-> FALSE, errors |-> <<>>]

\* no function is called on its own
NoCall == [fn |-> "none"]

VARIABLES
    next_id,        \* next article id assigned at ingestion
    pc,             \* node each article's run is at
    trace,          \* nodes executed for each article, in order
    raw_news,       \* RawNewsInput: cleaned content length and title length
    normalized_content, \* content class of each accepted article
    is_duplicate,   \* NewsState.is_duplicate: "unset" | "true" | "false"
    duplicate_cluster_id, \* NewsState.duplicate_cluster_id
    attempts,       \* failed attempts of the dependency call in progress
    result,         \* what the ingestion entrypoint returned for the article
    store_outcome,  \* what store reported last for the article
    collection,     \* ChromaDB collection "financial_news": id -> record
    postgres,       \* PostgreSQL News Articles table: id -> record
    write_count,    \* writes the Indexer of an article's run made into each store
    deferred,       \* articles deferred for later ingestion (specification 7)
    last_store,     \* content passed to the latest store call for an id
    restores,       \* number of repeated store calls made so far
    failures,       \* number of failures injected so far
    news_state,     \* NewsState of each article: entities, stock_impacts,
                    \* sentiment_label, sentiment_score, errors and the
                    \* low-confidence mark of the sentiment
    call,           \* a function called on its own: name, arguments, result
    app,            \* the dashboard: the state of the App component, its
                    \* auto-refresh interval and its requests in flight
    localStorage    \* localStorage of the browser: key -> item

vars == <<next_id, pc, trace, raw_news, normalized_content, is_duplicate, duplicate_cluster_id,
          attempts, result, store_outcome, collection, postgres, write_count,
          deferred, last_store, restores, failures, news_state, call,
          app, localStorage>>

\* the pipeline and the stores
pipevars == <<next_id, pc, trace, raw_news, normalized_content, is_duplicate,
              duplicate_cluster_id, attempts, result, store_outcome, collection,
              postgres, write_count, deferred, last_store, restores, failures>>

\* ---------------------------------------------------------------- helpers
Abs(x) == IF x < 0 THEN -x ELSE x

\* cosine distance between the embeddings of two content classes
Distance(c1, c2) == IF 30 * Abs(c1 - c2) > 100 THEN 100 ELSE 30 * Abs(c1 - c2)

\* similarity = 1 - distance
Similarity(c1, c2) == 100 - Distance(c1, c2)

\* the node order of the graph
Stages == <<"ingest", "dedup", "ner", "impact", "sentiment", "storage">>

IsPrefix(s, t) == Len(s) <= Len(t) /\ \A i \in 1..Len(s) : s[i] = t[i]

\* variant: the title is not checked
validate_notitle(clean_len, title_len) == clean_len >= MIN_CONTENT_LENGTH

\* Normalizer validation (specification 4.1): cleaned content of at least
\* 50 characters and a non-empty title
validate(clean_len, title_len) == clean_len >= MIN_CONTENT_LENGTH /\ title_len > 0
\* ------------------------------------------------------------ deduplication
\* result order of collection.query: nearest first, ties by insertion order
Precedes(coll, c, i, j) ==
    \/ Similarity(coll[i].document, c) > Similarity(coll[j].document, c)
    \/ /\ Similarity(coll[i].document, c) = Similarity(coll[j].document, c)
       /\ i < j

\* collection.query(query_embeddings=[embedding], n_results=5)
query(coll, c) ==
    {i \in DOMAIN coll :
        Cardinality({j \in DOMAIN coll : Precedes(coll, c, j, i)}) < N_RESULTS}

\* variant: the cluster of the matched document is not propagated
existing_cluster_id_lost(coll, doc) == NoCluster

\* cluster id carried by the metadata of a stored document
existing_cluster_id(coll, doc) == coll[doc].cluster_id

\* cluster id allocated for a unique article (specification 4.2): the
\* article's own id
new_cluster_id(article_id) == article_id

\* check_duplicate: the first neighbour at or above the threshold decides
check_duplicate(article_id, c, coll) ==
    LET similar == query(coll, c)
        hits == {i \in similar :
                    Similarity(coll[i].document, c) >= DUPLICATE_THRESHOLD}
        first == CHOOSE i \in hits :
                    \A j \in hits : j = i \/ Precedes(coll, c, i, j)
    IN  IF hits # {}
        THEN [is_duplicate |-> TRUE,
              similarity |-> Similarity(coll[first].document, c),
              cluster_id |-> existing_cluster_id(coll, first)]
        ELSE [is_duplicate |-> FALSE,
              similarity |-> 0,
              cluster_id |-> new_cluster_id(article_id)]

\* variant: the conditional edge never skips
should_skip_duplicate_noskip(dup) == "continue"

\* conditional edge after dedup
should_skip_duplicate(dup) == IF dup THEN "skip" ELSE "continue"

\* ------------------------------------------------------------------ storage
\* ChromaDB add: an id that is already present is left as it is
add_documents(coll, id, rec) ==
    IF id \in DOMAIN coll THEN coll ELSE coll @@ (id :> rec)

\* PostgreSQL INSERT on the primary key id: an existing row is left as it is
INSERT(table, id, rec) ==
    IF id \in DOMAIN table THEN table ELSE table @@ (id :> rec)

\* the outcome store reports (specification 4.6, PartialStorageFailure):
\* which halves are written
StorageResult(v_done, s_done) ==
    IF v_done /\ s_done THEN "both"
    ELSE IF v_done THEN "vector_only"
    ELSE IF s_done THEN "structured_only"
    ELSE "neither"

\* variant: a retry writes the vector store again
pending_vector_always(outcome) == TRUE

\* the halves a store call still has to write (specification 4.6: only the
\* failed half is retried)
pending_vector(outcome) == outcome \in {"none", "neither", "structured_only"}
pending_structured(outcome) == outcome \in {"none", "neither", "vector_only"}

\* variant: one retry too many
retries_exhausted_late(n) == n > MAX_ATTEMPTS

\* a failed dependency call is retried until max_attempts is reached
retries_exhausted(n) == n >= MAX_ATTEMPTS

\* a dependency (embedding provider, vector store, structured store) is down
Unavailable(down) ==
    IF down THEN failures < MaxFailures /\ failures' = failures + 1
    ELSE UNCHANGED failures

\* ---------------------------------------------------------- entity catalog
\* companies of the catalog, in catalog order
CompanyNames == <<"HDFC Bank", "ICICI Bank", "SBI", "TCS">>

\* company name -> ticker symbol and sector
COMPANIES ==
    ("HDFC Bank" :> [symbol |-> "HDFCBANK", sector |-> "Banking"]) @@
    ("ICICI Bank" :> [symbol |-> "ICICIBANK", sector |-> "Banking"]) @@
    ("SBI" :> [symbol |-> "SBIN", sector |-> "Banking"]) @@
    ("TCS" :> [symbol |-> "TCS", sector |-> "IT"])

\* alias or ticker -> company name
ALIASES ==
    ("HDFC Bank" :> "HDFC Bank") @@ ("HDFCBANK" :> "HDFC Bank") @@
    ("HDFC" :> "HDFC Bank") @@ ("ICICI Bank" :> "ICICI Bank") @@
    ("SBI" :> "SBI") @@ ("TCS" :> "TCS")

\* sector keywords
SECTORS == {"Banking", "IT"}

\* regulator acronym -> sectors it regulates
REGULATORS == ("RBI" :> {"Banking"}) @@ ("SEBI" :> {"Banking", "IT"})

lookup_company(value) == COMPANIES[value]

\* the companies of a sector, in catalog order
get_sector_peers(sector) ==
    SelectSeq(CompanyNames, LAMBDA n : COMPANIES[n].sector = sector)

\* the companies of the sectors a regulator regulates, in catalog order
get_regulated_companies(regulator) ==
    SelectSeq(CompanyNames, LAMBDA n : COMPANIES[n].sector \in REGULATORS[regulator])

\* ------------------------------------------------------------- stock impact
\* sector adjacency graph of the catalog: sector -> the sectors it supplies
supply_chain == ("IT" :> <<"Banking">>)

\* variant: the regulatory confidence reaches the sector confidence
IMPACT_TYPES_overlap ==
    [DIRECT |-> 100, SECTOR |-> 70, REGULATORY |-> 70, SUPPLY_CHAIN |-> 50]

\* IMPACT_TYPES: the confidence of each impact type, in hundredths
IMPACT_TYPES ==
    [DIRECT |-> 100, SECTOR |-> 70, REGULATORY |-> 60, SUPPLY_CHAIN |-> 50]

Impact(name, type) ==
    [stock |-> COMPANIES[name].symbol, type |-> type,
     confidence |-> IMPACT_TYPES[type]]

RECURSIVE ImpactsFor(_, _)
\* one impact of the given type for each company of the list
ImpactsFor(names, type) ==
    IF names = <<>> THEN <<>>
    ELSE <<Impact(Head(names), type)>> \o ImpactsFor(Tail(names), type)

\* the body of the loop of map_impact for one entity
EntityImpacts(entity) ==
    IF entity.type = "COMPANY"
    THEN <<Impact(entity.value, "DIRECT")>>
            \o ImpactsFor(get_sector_peers(lookup_company(entity.value).sector), "SECTOR")
    ELSE IF entity.type = "REGULATOR"
    THEN ImpactsFor(get_regulated_companies(entity.value), "REGULATORY")
    ELSE <<>>

RECURSIVE RawImpacts(_)
\* the list map_impact has appended to when its loop ends
RawImpacts(entity_list) ==
    IF entity_list = <<>> THEN <<>>
    ELSE EntityImpacts(Head(entity_list)) \o RawImpacts(Tail(entity_list))

\* impact type priority (specification 4.4): direct, sector, regulatory,
\* supply_chain
TypePriority ==
    [DIRECT |-> 1, SECTOR |-> 2, REGULATORY |-> 3, SUPPLY_CHAIN |-> 4]

SamePair(x, y) == x.stock = y.stock /\ x.type = y.type

\* the largest confidence among the entries of the pair of x
MaxConfidence(impacts, x) ==
    LET cs == {impacts[i].confidence : i \in {j \in 1..Len(impacts) : SamePair(impacts[j], x)}}
    IN  CHOOSE c \in cs : \A d \in cs : d <= c

RECURSIVE DedupFrom(_, _)
\* one entry per (stock, type) pair in order of first occurrence, carrying
\* the pair's largest confidence (specification 4.4)
DedupFrom(impacts, i) ==
    IF i > Len(impacts) THEN <<>>
    ELSE IF \E j \in 1..(i - 1) : SamePair(impacts[j], impacts[i])
         THEN DedupFrom(impacts, i + 1)
         ELSE <<[impacts[i] EXCEPT !.confidence = MaxConfidence(impacts, impacts[i])]>>
                \o DedupFrom(impacts, i + 1)

\* variant: every appended entry is kept
deduplicate_keepall(impacts) == impacts

deduplicate(impacts) == DedupFrom(impacts, 1)

\* variant: the impact type does not break ties
RanksBefore_notype(x, y) == x.confidence > y.confidence

\* x sorts before y: higher confidence first, then the impact type priority
RanksBefore(x, y) ==
    \/ x.confidence > y.confidence
    \/ /\ x.confidence = y.confidence
       /\ TypePriority[x.type] < TypePriority[y.type]

RECURSIVE InsertRanked(_, _)
\* insert x behind every entry that does not sort after it
InsertRanked(sorted, x) ==
    IF sorted = <<>> THEN <<x>>
    ELSE IF RanksBefore(x, Head(sorted)) THEN <<x>> \o sorted
    ELSE <<Head(sorted)>> \o InsertRanked(Tail(sorted), x)

RECURSIVE rank(_)
\* stable sort by RanksBefore
rank(impacts) ==
    IF impacts = <<>> THEN <<>>
    ELSE InsertRanked(rank(SubSeq(impacts, 1, Len(impacts) - 1)), impacts[Len(impacts)])

deduplicate_and_rank(impacts) == rank(deduplicate(impacts))

\* variant: the appended list is returned as it is
map_impact_raw(entity_list) == RawImpacts(entity_list)

\* variant: the list is not ranked
map_impact_unranked(entity_list) == deduplicate(RawImpacts(entity_list))

\* map_impact(article, entities); None for the entities gives no impact
map_impact(entity_list) == deduplicate_and_rank(RawImpacts(entity_list))

\* -------------------------------------------------------- entity extraction
Entity(type, value, confidence) ==
    [type |-> type, value |-> value, confidence |-> confidence]

\* rule-based match of one token against the catalog: an exact alias,
\* sector keyword or regulator acronym has confidence 1.0
TokenEntity(t) ==
    IF t \in DOMAIN ALIASES THEN <<Entity("COMPANY", ALIASES[t], 100)>>
    ELSE IF t \in SECTORS THEN <<Entity("SECTOR", t, 100)>>
    ELSE IF t \in DOMAIN REGULATORS THEN <<Entity("REGULATOR", t, 100)>>
    ELSE <<>>

RECURSIVE Matches(_)
Matches(tokens) ==
    IF tokens = <<>> THEN <<>>
    ELSE TokenEntity(Head(tokens)) \o Matches(Tail(tokens))

SameEntity(x, y) == x.type = y.type /\ x.value = y.value

RECURSIVE MergeFrom(_, _)
\* Entity Merger: one entry per canonical value, the higher confidence kept
MergeFrom(list, i) ==
    IF i > Len(list) THEN <<>>
    ELSE IF \E j \in 1..(i - 1) : SameEntity(list[j], list[i])
         THEN MergeFrom(list, i + 1)
         ELSE LET cs == {list[k].confidence :
                            k \in {j \in 1..Len(list) : SameEntity(list[j], list[i])}}
              IN  <<[list[i] EXCEPT !.confidence = CHOOSE c \in cs : \A d \in cs : d <= c]>>
                    \o MergeFrom(list, i + 1)

OfType(list, type) == SelectSeq(list, LAMBDA e : e.type = type)

RECURSIVE SectorsOf(_)
\* the sector of each company of the list, at 0.9 of the company's confidence
SectorsOf(companies) ==
    IF companies = <<>> THEN <<>>
    ELSE <<Entity("SECTOR", COMPANIES[Head(companies).value].sector,
                  (Head(companies).confidence * 9) \div 10)>>
            \o SectorsOf(Tail(companies))

\* variant: no sector is inferred from a company
InferredSectors_none(list) == <<>>

\* sector inference (specification 4.3): a company found and no sector
\* mentioned adds the company's sector
InferredSectors(list) ==
    IF OfType(list, "SECTOR") = <<>> THEN SectorsOf(OfType(list, "COMPANY")) ELSE <<>>

\* ner_agent.extract
extract(tokens) ==
    LET found == MergeFrom(Matches(tokens), 1)
    IN  MergeFrom(found \o InferredSectors(found), 1)

\* ---------------------------------------------------------------- sentiment
\* the classes of FinBERT, in the order of its output
FINBERT_LABELS == <<"positive", "negative", "neutral">>

\* positive -> bullish, negative -> bearish, neutral
LABEL_MAP == [positive |-> "bullish", negative |-> "bearish", neutral |-> "neutral"]

\* the first class with the largest probability
argmax(raw_scores) ==
    LET best == CHOOSE i \in 1..3 :
                    /\ \A j \in 1..3 : raw_scores[FINBERT_LABELS[j]] <= raw_scores[FINBERT_LABELS[i]]
                    /\ \A j \in 1..(i - 1) : raw_scores[FINBERT_LABELS[j]] < raw_scores[FINBERT_LABELS[i]]
    IN  FINBERT_LABELS[best]

\* variant: a short text is given the neutral default
analyze_shortneutral(text_len, raw_scores) ==
    IF text_len < MIN_CONTENT_LENGTH
    THEN [none |-> FALSE, label |-> "neutral", score |-> 50]
    ELSE [none |-> FALSE, label |-> LABEL_MAP[argmax(raw_scores)],
          score |-> raw_scores[argmax(raw_scores)]]

\* FinBERTSentimentAgent.analyze: None for a text under 50 characters
analyze(text_len, raw_scores) ==
    IF text_len < MIN_CONTENT_LENGTH
    THEN NoSentiment
    ELSE [none |-> FALSE, label |-> LABEL_MAP[argmax(raw_scores)],
          score |-> raw_scores[argmax(raw_scores)]]

\* the default of a failed inference (specification 4.5)
NEUTRAL_DEFAULT == [none |-> FALSE, label |-> "neutral", score |-> 50]

\* classify: analyze, with the neutral default when the inference, which
\* only a text of at least 50 characters reaches, fails
classify(text_len, raw_scores, ok) ==
    IF ~ok /\ text_len >= MIN_CONTENT_LENGTH
    THEN NEUTRAL_DEFAULT
    ELSE analyze(text_len, raw_scores)

\* sentiment_label and sentiment_score of the NewsState for a result
SentimentFields(r) ==
    [sentiment_label |-> IF r.none THEN "unset" ELSE r.label,
     sentiment_score |-> IF r.none THEN NoScore ELSE r.score]

\* ------------------------------------------------------------- query engine
\* variant: a sector is looked for before a company
detect_query_type_sectorfirst(entity_list) ==
    IF OfType(entity_list, "SECTOR") # <<>> THEN "sector_query"
    ELSE IF OfType(entity_list, "COMPANY") # <<>> THEN "company_query"
    ELSE IF OfType(entity_list, "REGULATOR") # <<>> THEN "regulator_query"
    ELSE "theme_query"

\* detect_query_type: the first entity type present, in the order company,
\* sector, regulator (specification 4.7)
detect_query_type(entity_list) ==
    IF OfType(entity_list, "COMPANY") # <<>> THEN "company_query"
    ELSE IF OfType(entity_list, "SECTOR") # <<>> THEN "sector_query"
    ELSE IF OfType(entity_list, "REGULATOR") # <<>> THEN "regulator_query"
    ELSE "theme_query"

\* the stored articles a query runs against: the entity values and sector of
\* the metadata, the age in days and whether the article is the original of
\* its cluster
Corpus ==
    << [entities |-> {"HDFC Bank"}, sector |-> "Banking", days_old |-> 0, is_original |-> TRUE],
       [entities |-> {"ICICI Bank", "RBI"}, sector |-> "Banking", days_old |-> 12, is_original |-> TRUE],
       [entities |-> {"TCS"}, sector |-> "IT", days_old |-> 11, is_original |-> TRUE],
       [entities |-> {"HDFC Bank"}, sector |-> "Banking", days_old |-> 1, is_original |-> FALSE] >>

RECURSIVE NearestFirst(_, _)
\* the ids in the order of a ChromaDB query: nearest first, ties by insertion
NearestFirst(ids, sims) ==
    IF ids = {} THEN <<>>
    ELSE LET best == CHOOSE i \in ids :
                        \A j \in ids : sims[i] > sims[j] \/ (sims[i] = sims[j] /\ i <= j)
         IN  <<best>> \o NearestFirst(ids \ {best}, sims)

Candidate(id, sim) == [id |-> id, vector_similarity |-> sim]

RECURSIVE Candidates(_, _)
Candidates(ids, sims) ==
    IF ids = <<>> THEN <<>>
    ELSE <<Candidate(Head(ids), sims[Head(ids)])>> \o Candidates(Tail(ids), sims)

NoSimilarity == [i \in 1..Len(Corpus) |-> 0]

\* 1. Semantic search: original query -> top N similar
semantic_search(sims, n) ==
    LET order == NearestFirst(1..Len(Corpus), sims)
    IN  Candidates(SubSeq(order, 1, IF n < Len(order) THEN n ELSE Len(order)), sims)

IdsWhere(Test(_)) == SelectSeq([i \in 1..Len(Corpus) |-> i], Test)

has_direct_entity_match(entity_list, id) ==
    \E k \in 1..Len(entity_list) :
        /\ entity_list[k].type \in {"COMPANY", "REGULATOR"}
        /\ entity_list[k].value \in Corpus[id].entities

has_sector_match(entity_list, id) ==
    \E k \in 1..Len(entity_list) :
        /\ entity_list[k].type = "SECTOR"
        /\ entity_list[k].value = Corpus[id].sector

\* 2. Entity search: filter by entity_value
entity_search(entity_list) ==
    Candidates(IdsWhere(LAMBDA i : has_direct_entity_match(entity_list, i)), NoSimilarity)

\* 3. Sector search: filter by sector
sector_search(entity_list) ==
    Candidates(IdsWhere(LAMBDA i : has_sector_match(entity_list, i)), NoSimilarity)

RECURSIVE FirstById(_, _)
FirstById(cands, i) ==
    IF i > Len(cands) THEN <<>>
    ELSE IF \E j \in 1..(i - 1) : cands[j].id = cands[i].id
         THEN FirstById(cands, i + 1)
         ELSE <<cands[i]>> \o FirstById(cands, i + 1)

\* variant: the candidates of the strategies are only concatenated
merge_concat(semantic, by_entity, by_sector) == semantic \o by_entity \o by_sector

\* Deduplicate by article_id: the first candidate of an id is kept
merge(semantic, by_entity, by_sector) ==
    FirstById(semantic \o by_entity \o by_sector, 1)

\* the score rank_results gives a result, in thousandths
final_score(entity_list, r) ==
    r.vector_similarity * 4
    + (IF has_direct_entity_match(entity_list, r.id) THEN 300
       ELSE IF has_sector_match(entity_list, r.id) THEN 150 ELSE 0)
    + (IF 200 - Corpus[r.id].days_old * 20 > 0 THEN 200 - Corpus[r.id].days_old * 20 ELSE 0)
    + (IF Corpus[r.id].is_original THEN 100 ELSE 0)

RECURSIVE InsertByScore(_, _)
InsertByScore(sorted, x) ==
    IF sorted = <<>> THEN <<x>>
    ELSE IF x.final_score > Head(sorted).final_score THEN <<x>> \o sorted
    ELSE <<Head(sorted)>> \o InsertByScore(Tail(sorted), x)

RECURSIVE SortedByScore(_)
\* sorted(results, key=final_score, reverse=True): equal scores keep their order
SortedByScore(results) ==
    IF results = <<>> THEN <<>>
    ELSE InsertByScore(SortedByScore(SubSeq(results, 1, Len(results) - 1)),
                       results[Len(results)])

RECURSIVE WithScores(_, _)
\* final_score set on every result
WithScores(entity_list, results) ==
    IF results = <<>> THEN <<>>
    ELSE <<[id |-> Head(results).id,
            vector_similarity |-> Head(results).vector_similarity,
            final_score |-> final_score(entity_list, Head(results))]>>
            \o WithScores(entity_list, Tail(results))

rank_results(entity_list, results) == SortedByScore(WithScores(entity_list, results))

\* chroma.query inside its recovery handler: a corrupted collection is
\* rebuilt and queried again; after any other exception the handler ends
\* with results unassigned and the next use of it raises
chroma_query(chroma, sims, n) ==
    IF chroma = "ok" THEN [raised |-> FALSE, results |-> semantic_search(sims, n)]
    ELSE IF chroma = "corrupted"
    THEN [raised |-> FALSE, results |-> semantic_search(sims, n)]
    ELSE [raised |-> TRUE, results |-> <<>>]

\* search(queryText, limit): the analysis, the three strategies, the merge,
\* the ranking and the cut to limit; no response field says that the semantic
\* ranking was unavailable (degraded stays FALSE)
search(tokens, limit, sims, chroma) ==
    LET entity_list == extract(tokens)
        analysis == [intent |-> detect_query_type(entity_list),
                     detectedEntities |-> entity_list]
        semantic == chroma_query(chroma, sims, limit)
        ranked == rank_results(entity_list,
                    merge(semantic.results, entity_search(entity_list),
                          sector_search(entity_list)))
    IN  IF semantic.raised
        THEN [status |-> "error", analysis |-> analysis, degraded |-> FALSE,
              results |-> <<>>]
        ELSE [status |-> "ok", analysis |-> analysis, degraded |-> FALSE,
              results |-> SubSeq(ranked, 1, IF limit < Len(ranked) THEN limit ELSE Len(ranked))]

\* None of Optional[str] for synthesized_answer
NoAnswer == "none"

\* the ways the call of the LLM can end: an answer, or one of the exceptions
\* of the provider's client ("HTTP 5xx, timeout, rate limit")
LLM_OUTCOMES == {"ok", "RateLimitError", "TimeoutError", "InternalServerError"}

\* llm.generate inside its recovery handler: a rate limit or a timeout is
\* logged and gives no answer; any other exception leaves the handler
llm_generate(llm) ==
    IF llm = "ok" THEN [raised |-> FALSE, answer |-> "answer"]
    ELSE IF llm \in {"RateLimitError", "TimeoutError"}
    THEN [raised |-> FALSE, answer |-> NoAnswer]
    ELSE [raised |-> TRUE, answer |-> NoAnswer]

\* the query with its optional RAG synthesis step: search, then the answer
\* of the LLM over the top documents when synthesis is enabled
query_with_rag(tokens, limit, sims, chroma, rag_enabled, llm) ==
    LET found == search(tokens, limit, sims, chroma)
        generated == llm_generate(llm)
    IN  IF found.status = "error"
        THEN [status |-> "error", results |-> <<>>, synthesized_answer |-> NoAnswer]
        ELSE IF ~rag_enabled
        THEN [status |-> "ok", results |-> found.results,
              synthesized_answer |-> NoAnswer]
        ELSE IF generated.raised
        THEN [status |-> "error", results |-> <<>>, synthesized_answer |-> NoAnswer]
        ELSE [status |-> "ok", results |-> found.results,
              synthesized_answer |-> generated.answer]

\* ---------------------------------------------------------------- dashboard
\* feedTabs, sidebarItems and texts of the search box that are exercised
Tabs == {"for-you", "latest"}
Pages == {"home", "bookmarks"}
Queries == {"", "RBI"}

\* localStorage.getItem of a key that was never set
NoItem == [present |-> FALSE, text |-> <<>>]

\* the values Math.floor(Math.random() * 50) + 5 ranges over: the ends
BaseCounts == {5, 54}

\* response.data.results of a request, as article ids
Response(kind, arg) ==
    IF kind = "search" THEN <<2, 3>>
    ELSE IF arg = "for-you" THEN <<1, 2>>
    ELSE <<3, 1>>

\* no interval is set
NoInterval ==
    [registered |-> FALSE, activePage |-> "home", activeTab |-> "for-you",
     searchQuery |-> ""]

\* the useState initial values of App; a Set is the sequence of its members
\* in insertion order
AppState ==
    [mounted |-> FALSE, page_loads |-> 0,
     activeTab |-> "for-you", activePage |-> "home", searchQuery |-> "",
     isSearching |-> FALSE, results |-> <<>>, bookmarks |-> <<>>,
     upvotes |-> <<>>, initialUpvotes |-> <<>>, userUpvotes |-> {},
     autoRefreshEnabled |-> TRUE, interval |-> NoInterval, requests |-> <<>>]

Members(seq) == {seq[i] : i \in 1..Len(seq)}

RECURSIVE NewSet(_)
\* new Set(array): the members in the order of their first occurrence
NewSet(array) ==
    IF array = <<>> THEN <<>>
    ELSE LET init == NewSet(SubSeq(array, 1, Len(array) - 1)) IN
         IF array[Len(array)] \in Members(init) THEN init
         ELSE Append(init, array[Len(array)])

\* JSON.stringify(Array.from(set)) as an item of localStorage
stringify(set) == [present |-> TRUE, text |-> set]

\* JSON.parse(item)
parse(item) == item.text

\* upvotes[id] || 0
UpvoteCount(s, id) == IF id \in DOMAIN s.upvotes THEN s.upvotes[id] ELSE 0

\* loadFeed(tab) up to its await: the request is sent
loadFeed(s, tab, by) ==
    [s EXCEPT !.isSearching = TRUE,
              !.requests = Append(@, [kind |-> "feed", arg |-> tab, by |-> by,
                                      state |-> "pending"])]

\* effect "Load initial feed when tab changes"
feed_effect(s) ==
    IF s.activePage = "home" /\ s.searchQuery = ""
    THEN loadFeed(s, s.activeTab, "effect")
    ELSE s

\* variant: the interval is set whether auto-refresh is enabled or not
auto_refresh_effect_always(s) ==
    [s EXCEPT !.interval =
        [registered |-> TRUE, activePage |-> s.activePage,
         activeTab |-> s.activeTab, searchQuery |-> s.searchQuery]]

\* effect "Auto-refresh every 5 minutes": the interval of the last render is
\* cleared, a new one is set when auto-refresh is enabled, its callback
\* closing over the values of this render
auto_refresh_effect(s) ==
    [s EXCEPT !.interval =
        IF ~s.autoRefreshEnabled THEN NoInterval
        ELSE [registered |-> TRUE, activePage |-> s.activePage,
              activeTab |-> s.activeTab, searchQuery |-> s.searchQuery]]

\* the effects of the render that follows a state change
render(old, new) ==
    auto_refresh_effect(
        IF <<old.activeTab, old.activePage, old.searchQuery>>
                # <<new.activeTab, new.activePage, new.searchQuery>>
        THEN feed_effect(new)
        ELSE new)

\* the cards the page shows
Visible(s) ==
    IF s.activePage = "home"
    THEN IF s.isSearching THEN {} ELSE Members(s.results)
    ELSE Members(s.results) \cap Members(s.bookmarks)

\* ------------------------------------------------------- article contents
\* the catalog terms the text of a content class mentions
ContentTokens(c) ==
    IF c = 0 THEN <<"HDFC Bank">>
    ELSE IF c = 1 THEN <<"HDFC", "RBI">>
    ELSE <<"TCS">>

\* the class probabilities FinBERT gives the text of a content class
RawScores(c) ==
    IF c = 0 THEN [positive |-> 90, negative |-> 5, neutral |-> 5]
    ELSE IF c = 1 THEN [positive |-> 40, negative |-> 40, neutral |-> 20]
    ELSE [positive |-> 10, negative |-> 10, neutral |-> 80]

\* raw inputs: acceptable, content one character too short, empty title
RawInputs ==
    { [clean_len |-> MIN_CONTENT_LENGTH, title_len |-> 1],
      [clean_len |-> MIN_CONTENT_LENGTH - 1, title_len |-> 1],
      [clean_len |-> MIN_CONTENT_LENGTH, title_len |-> 0] }

InFlight == {a \in ArticleIds : pc[a] \notin {"new", "done"}}

\* -------------------------------------------------------------------- Init
\* no article was ingested yet
Idle ==
    /\ next_id = 1
    /\ pc = [a \in ArticleIds |-> "new"]
    /\ trace = [a \in ArticleIds |-> <<>>]
    /\ raw_news = [a \in ArticleIds |-> [clean_len |-> 0, title_len |-> 0]]
    /\ normalized_content = [a \in ArticleIds |-> NoContent]
    /\ is_duplicate = [a \in ArticleIds |-> "unset"]
    /\ duplicate_cluster_id = [a \in ArticleIds |-> NoCluster]
    /\ attempts = [a \in ArticleIds |-> 0]
    /\ result = [a \in ArticleIds |-> "none"]
    /\ store_outcome = [a \in ArticleIds |-> "none"]
    /\ collection = <<>>
    /\ postgres = <<>>
    /\ write_count = [a \in ArticleIds |-> [v |-> 0, s |-> 0]]
    /\ deferred = {}
    /\ last_store = [a \in ArticleIds |-> NoContent]
    /\ restores = 0
    /\ failures = 0
    /\ news_state = [a \in ArticleIds |-> NewsState]
    /\ app = AppState
    /\ localStorage = [tradl_bookmarks |-> NoItem]

Init == Idle /\ call = NoCall

\* ----------------------------------------------------------------- actions
\* 1. INGEST: assign the id, normalize, validate
ingest_node(clean_len, title_len, c) ==
    /\ next_id <= MaxArticles
    /\ Cardinality(InFlight) < MaxWorkers
    /\ LET a == next_id IN
        /\ next_id' = next_id + 1
        /\ trace' = [trace EXCEPT ![a] = <<"ingest">>]
        /\ raw_news' = [raw_news EXCEPT
                ![a] = [clean_len |-> clean_len, title_len |-> title_len]]
        /\ IF validate(clean_len, title_len)
           THEN /\ pc' = [pc EXCEPT ![a] = "dedup"]
                /\ normalized_content' = [normalized_content EXCEPT ![a] = c]
                /\ UNCHANGED result
           ELSE /\ pc' = [pc EXCEPT ![a] = "done"]
                /\ result' = [result EXCEPT ![a] = "invalid_input"]
                /\ UNCHANGED normalized_content
    /\ UNCHANGED <<is_duplicate, duplicate_cluster_id, attempts, store_outcome,
                   collection, postgres, write_count, deferred, last_store,
                   restores, failures>>
    /\ UNCHANGED <<news_state, call, app, localStorage>>

\* the embedding + query call of the Deduplicator and the routing after it
DedupCall(a, ok) ==
    IF ok
    THEN LET r == check_duplicate(a, normalized_content[a], collection) IN
         /\ is_duplicate' = [is_duplicate EXCEPT
                ![a] = IF r.is_duplicate THEN "true" ELSE "false"]
         /\ duplicate_cluster_id' = [duplicate_cluster_id EXCEPT ![a] = r.cluster_id]
         /\ attempts' = [attempts EXCEPT ![a] = 0]
         /\ IF should_skip_duplicate(r.is_duplicate) = "skip"
            THEN /\ pc' = [pc EXCEPT ![a] = "done"]
                 /\ result' = [result EXCEPT ![a] = "duplicate"]
            ELSE /\ pc' = [pc EXCEPT ![a] = "ner"]
                 /\ UNCHANGED result
         /\ UNCHANGED deferred
    ELSE /\ attempts' = [attempts EXCEPT ![a] = attempts[a] + 1]
         /\ IF retries_exhausted(attempts[a] + 1)
            THEN /\ pc' = [pc EXCEPT ![a] = "done"]
                 /\ result' = [result EXCEPT ![a] = "deferred"]
                 /\ deferred' = deferred \cup {a}
            ELSE /\ pc' = [pc EXCEPT ![a] = "dedup_retry"]
                 /\ UNCHANGED <<result, deferred>>
         /\ UNCHANGED <<is_duplicate, duplicate_cluster_id>>

\* 2. DEDUP
dedup_node(a, ok) ==
    /\ pc[a] = "dedup"
    /\ Unavailable(~ok)
    /\ trace' = [trace EXCEPT ![a] = Append(trace[a], "dedup")]
    /\ DedupCall(a, ok)
    /\ UNCHANGED <<next_id, raw_news, normalized_content, store_outcome, collection, postgres,
                   write_count, last_store, restores>>
    /\ UNCHANGED <<news_state, call, app, localStorage>>

\* retry of the failed embedding / query call
dedup_retry(a, ok) ==
    /\ pc[a] = "dedup_retry"
    /\ Unavailable(~ok)
    /\ DedupCall(a, ok)
    /\ UNCHANGED <<next_id, trace, raw_news, normalized_content, store_outcome, collection, postgres,
                   write_count, last_store, restores>>
    /\ UNCHANGED <<news_state, call, app, localStorage>>

\* a node that only enriches the state and hands over to the next node
EnrichNode(a, node, next) ==
    /\ pc[a] = node
    /\ pc' = [pc EXCEPT ![a] = next]
    /\ trace' = [trace EXCEPT ![a] = Append(trace[a], node)]
    /\ UNCHANGED <<next_id, raw_news, normalized_content, is_duplicate, duplicate_cluster_id,
                   attempts, result, store_outcome, collection, postgres,
                   write_count, deferred, last_store, restores>>
    /\ UNCHANGED <<call, app, localStorage>>

\* variant: an exception of the extractor ends the run
ner_node_abort(a, ok) ==
    IF ok
    THEN /\ EnrichNode(a, "ner", "impact")
         /\ Unavailable(FALSE)
         /\ news_state' = [news_state EXCEPT
                ![a].entities = [none |-> FALSE,
                                 list |-> extract(ContentTokens(normalized_content[a]))]]
    ELSE /\ EnrichNode(a, "ner", "done")
         /\ Unavailable(TRUE)
         /\ news_state' = [news_state EXCEPT ![a].errors = Append(@, "ner")]

\* 3. NER: an exception of the extractor is logged and leaves no entities
ner_node(a, ok) ==
    /\ EnrichNode(a, "ner", "impact")
    /\ Unavailable(~ok)
    /\ news_state' =
        IF ok
        THEN [news_state EXCEPT
                ![a].entities = [none |-> FALSE,
                                 list |-> extract(ContentTokens(normalized_content[a]))]]
        ELSE [news_state EXCEPT
                ![a].entities = NoEntities,
                ![a].errors = Append(@, "ner")]

\* 4. IMPACT
impact_node(a) ==
    /\ EnrichNode(a, "impact", "sentiment")
    /\ news_state' = [news_state EXCEPT
            ![a].stock_impacts = map_impact(news_state[a].entities.list)]
    /\ UNCHANGED failures

\* 5. SENTIMENT: a failed inference is logged and gives the neutral default,
\* marked low-confidence
sentiment_node(a, ok) ==
    /\ EnrichNode(a, "sentiment", "storage")
    /\ Unavailable(~ok)
    /\ LET r == classify(raw_news[a].clean_len, RawScores(normalized_content[a]), ok) IN
        news_state' = [news_state EXCEPT
            ![a].sentiment_label = SentimentFields(r).sentiment_label,
            ![a].sentiment_score = SentimentFields(r).sentiment_score,
            ![a].low_confidence = ~ok,
            ![a].errors = IF ok THEN @ ELSE Append(@, "sentiment")]

\* store(article): write the halves still pending, report which are written
StoreCall(a, vOK, sOK) ==
    LET do_v == pending_vector(store_outcome[a])
        do_s == pending_structured(store_outcome[a])
        v_done == ~do_v \/ vOK
        s_done == ~do_s \/ sOK
        cid == duplicate_cluster_id[a]
    IN
    /\ collection' = IF do_v /\ vOK
                     THEN add_documents(collection, a,
                            [document |-> normalized_content[a], cluster_id |-> cid])
                     ELSE collection
    /\ postgres' = IF do_s /\ sOK
                   THEN INSERT(postgres, a,
                            [content |-> normalized_content[a], is_duplicate |-> FALSE,
                             cluster_id |-> cid])
                   ELSE postgres
    /\ write_count' = [write_count EXCEPT
            ![a] = [v |-> write_count[a].v + (IF do_v /\ vOK THEN 1 ELSE 0),
                    s |-> write_count[a].s + (IF do_s /\ sOK THEN 1 ELSE 0)]]
    /\ store_outcome' = [store_outcome EXCEPT ![a] = StorageResult(v_done, s_done)]
    /\ last_store' = [last_store EXCEPT ![a] = normalized_content[a]]
    /\ IF v_done /\ s_done
       THEN /\ pc' = [pc EXCEPT ![a] = "done"]
            /\ result' = [result EXCEPT ![a] = "stored"]
            /\ UNCHANGED <<attempts, deferred>>
       ELSE /\ attempts' = [attempts EXCEPT ![a] = attempts[a] + 1]
            /\ IF retries_exhausted(attempts[a] + 1)
               THEN /\ pc' = [pc EXCEPT ![a] = "done"]
                    /\ result' = [result EXCEPT ![a] = "deferred"]
                    /\ deferred' = deferred \cup {a}
               ELSE /\ pc' = [pc EXCEPT ![a] = "storage_retry"]
                    /\ UNCHANGED <<result, deferred>>

\* 6. STORAGE
storage_node(a, vOK, sOK) ==
    /\ pc[a] = "storage"
    /\ Unavailable(~(vOK /\ sOK))
    /\ trace' = [trace EXCEPT ![a] = Append(trace[a], "storage")]
    /\ StoreCall(a, vOK, sOK)
    /\ UNCHANGED <<next_id, raw_news, normalized_content, is_duplicate, duplicate_cluster_id, restores>>
    /\ UNCHANGED <<news_state, call, app, localStorage>>

\* ErrorHandling --> Storage: Retry
storage_retry(a, vOK, sOK) ==
    /\ pc[a] = "storage_retry"
    /\ Unavailable(~(vOK /\ sOK))
    /\ StoreCall(a, vOK, sOK)
    /\ UNCHANGED <<next_id, trace, raw_news, normalized_content, is_duplicate, duplicate_cluster_id, restores>>
    /\ UNCHANGED <<news_state, call, app, localStorage>>

\* store called again with the id of an article that is already stored
store_again(a, c) ==
    /\ result[a] = "stored"
    /\ restores < MaxRestores
    /\ restores' = restores + 1
    /\ collection' = add_documents(collection, a,
                        [document |-> c, cluster_id |-> duplicate_cluster_id[a]])
    /\ postgres' = INSERT(postgres, a,
                        [content |-> c, is_duplicate |-> FALSE,
                         cluster_id |-> duplicate_cluster_id[a]])
    /\ last_store' = [last_store EXCEPT ![a] = c]
    /\ UNCHANGED <<next_id, pc, trace, raw_news, normalized_content, is_duplicate,
                   duplicate_cluster_id, attempts, result, store_outcome,
                   write_count, deferred, failures>>
    /\ UNCHANGED <<news_state, call, app, localStorage>>

Next ==
    \/ \E raw \in RawInputs, c \in Contents :
            ingest_node(raw.clean_len, raw.title_len, c)
    \/ \E a \in ArticleIds, ok \in BOOLEAN : dedup_node(a, ok)
    \/ \E a \in ArticleIds, ok \in BOOLEAN : dedup_retry(a, ok)
    \/ \E a \in ArticleIds : ner_node(a, TRUE)
    \/ \E a \in ArticleIds : impact_node(a)
    \/ \E a \in ArticleIds : sentiment_node(a, TRUE)
    \/ \E a \in ArticleIds, vOK \in BOOLEAN, sOK \in BOOLEAN : storage_node(a, vOK, sOK)
    \/ \E a \in ArticleIds, vOK \in BOOLEAN, sOK \in BOOLEAN : storage_retry(a, vOK, sOK)

\* concurrent runs with failing dependencies (embedding provider, stores);
\* the extractor and the classifier answer
Spec == Init /\ [][Next]_vars

\* ------------------------------------------------------ one run at a time
\* the articles are ingested one after the other and the dependencies
\* answer; the extractor and the classifier may raise, and store may be
\* called again for a stored article
SerialNext ==
    \/ \E raw \in RawInputs, c \in Contents :
            InFlight = {} /\ ingest_node(raw.clean_len, raw.title_len, c)
    \/ \E a \in ArticleIds : dedup_node(a, TRUE)
    \/ \E a \in ArticleIds, ok \in BOOLEAN : ner_node(a, ok)
    \/ \E a \in ArticleIds : impact_node(a)
    \/ \E a \in ArticleIds, ok \in BOOLEAN : sentiment_node(a, ok)
    \/ \E a \in ArticleIds : storage_node(a, TRUE, TRUE)
    \/ \E a \in ArticleIds, c \in Contents : store_again(a, c)

SerialSpec == Init /\ [][SerialNext]_vars

\* ------------------------------------------------------- the Impact Scorer
\* entities the extractor can hand over: a catalog company found by exact
\* match (1.0) or by the statistical recognizer (0.8), a regulator
EntityChoices ==
    {Entity("COMPANY", CompanyNames[i], conf) : i \in 1..Len(CompanyNames), conf \in {80, 100}}
        \cup {Entity("REGULATOR", r, 100) : r \in DOMAIN REGULATORS}

\* impact entries as the loop of map_impact may append them
ImpactChoices ==
    [stock : {"HDFCBANK", "TCS"}, type : DOMAIN TypePriority, confidence : {60, 70}]

SeqsUpTo(S, n) == UNION {[1..k -> S] : k \in 0..n}

Called(fn, args) == [fn |-> fn, args |-> args, returned |-> FALSE, result |-> <<>>]

ImpactInit ==
    /\ Idle
    /\ \/ \E es \in SeqsUpTo(EntityChoices, MaxEntities) : call = Called("map_impact", es)
       \/ \E raw \in SeqsUpTo(ImpactChoices, MaxImpacts) :
                call = Called("deduplicate_and_rank", raw)

\* score(entities)
map_impact_call ==
    /\ call.fn = "map_impact" /\ ~call.returned
    /\ call' = [call EXCEPT !.returned = TRUE, !.result = map_impact(call.args)]
    /\ UNCHANGED <<pipevars, news_state, app, localStorage>>

\* the last step of score on a list of appended entries
deduplicate_and_rank_call ==
    /\ call.fn = "deduplicate_and_rank" /\ ~call.returned
    /\ call' = [call EXCEPT !.returned = TRUE, !.result = deduplicate_and_rank(call.args)]
    /\ UNCHANGED <<pipevars, news_state, app, localStorage>>

ImpactNext == map_impact_call \/ deduplicate_and_rank_call

ImpactSpec == ImpactInit /\ [][ImpactNext]_vars

\* ------------------------------------------------ the Sentiment Classifier
\* class probabilities in steps of 1 / MaxProbParts, in hundredths
Percent(k) == (100 * k) \div MaxProbParts

Distributions ==
    {[positive |-> Percent(pn[1]), negative |-> Percent(pn[2]),
      neutral |-> 100 - Percent(pn[1]) - Percent(pn[2])] :
        pn \in {x \in (0..MaxProbParts) \X (0..MaxProbParts) : x[1] + x[2] <= MaxProbParts}}

\* text lengths around the 50-character floor
TextLens == {0, MIN_CONTENT_LENGTH - 1, MIN_CONTENT_LENGTH, MIN_CONTENT_LENGTH + 1}

SentimentInit ==
    /\ Idle
    /\ \E len \in TextLens, d \in Distributions, ok \in BOOLEAN :
            call = Called("classify", [text_len |-> len, raw_scores |-> d, ok |-> ok])

\* classify(normalizedContent), and the two fields the node keeps of it
classify_call ==
    /\ call.fn = "classify" /\ ~call.returned
    /\ call' = [call EXCEPT
            !.returned = TRUE,
            !.result = SentimentFields(
                classify(call.args.text_len, call.args.raw_scores, call.args.ok))]
    /\ UNCHANGED <<pipevars, news_state, app, localStorage>>

SentimentNext == classify_call

SentimentSpec == SentimentInit /\ [][SentimentNext]_vars

\* --------------------------------------------------------- the Query Engine
\* words of a query: aliases, the sector keywords, a regulator, a word of no
\* catalog entry
Vocabulary == {"HDFC", "TCS", "Banking", "IT", "RBI", "xyzabc123"}

\* similarity of the query to each article of the corpus
QuerySims == [1..Len(Corpus) -> {40, 80}]

\* similarities of a query with synthesis: every article far, or the first
\* two near
RagSims == {[i \in 1..Len(Corpus) |-> 40],
            [i \in 1..Len(Corpus) |-> IF i <= 2 THEN 80 ELSE 40]}

QueryInit ==
    /\ Idle
    /\ \E tokens \in SeqsUpTo(Vocabulary, MaxQueryTokens), limit \in 1..MaxLimit,
          chroma \in {"ok", "corrupted", "unreachable"} :
            /\ tokens # <<>>
            /\ \/ \E sims \in QuerySims :
                    call = Called("search", [tokens |-> tokens, limit |-> limit,
                                             sims |-> sims, chroma |-> chroma])
               \/ \E sims \in RagSims, rag_enabled \in BOOLEAN, llm \in LLM_OUTCOMES :
                    call = Called("query_with_rag",
                                  [tokens |-> tokens, limit |-> limit, sims |-> sims,
                                   chroma |-> chroma, rag_enabled |-> rag_enabled,
                                   llm |-> llm])

\* POST /query
search_call ==
    /\ call.fn = "search" /\ ~call.returned
    /\ call' = [call EXCEPT
            !.returned = TRUE,
            !.result = search(call.args.tokens, call.args.limit,
                              call.args.sims, call.args.chroma)]
    /\ UNCHANGED <<pipevars, news_state, app, localStorage>>

\* POST /query with RAG synthesis
query_with_rag_call ==
    /\ call.fn = "query_with_rag" /\ ~call.returned
    /\ call' = [call EXCEPT
            !.returned = TRUE,
            !.result = query_with_rag(call.args.tokens, call.args.limit, call.args.sims,
                                      call.args.chroma, call.args.rag_enabled,
                                      call.args.llm)]
    /\ UNCHANGED <<pipevars, news_state, app, localStorage>>

QueryNext == search_call \/ query_with_rag_call

QuerySpec == QueryInit /\ [][QueryNext]_vars

\* ------------------------------------------------------------ the dashboard
\* the page is loaded: the first render of App and its effects, in the order
\* of their declaration (load from localStorage, save bookmarks, load feed,
\* auto-refresh), then the render that applies the setBookmarks of the load
\* effect, and its save effect
Mounted(saved) ==
    LET first == [AppState EXCEPT !.mounted = TRUE,
                                  !.page_loads = app.page_loads + 1]
        restored == IF saved.present THEN NewSet(parse(saved)) ELSE first.bookmarks
    IN  /\ app' = [auto_refresh_effect(feed_effect(first)) EXCEPT !.bookmarks = restored]
        /\ localStorage' = [localStorage EXCEPT !.tradl_bookmarks = stringify(restored)]

\* variant: the save effect runs before the load effect reads the item
mount_savefirst ==
    /\ ~app.mounted
    /\ Mounted(stringify(AppState.bookmarks))
    /\ UNCHANGED <<pipevars, news_state, call>>

mount ==
    /\ ~app.mounted
    /\ Mounted(localStorage.tradl_bookmarks)
    /\ UNCHANGED <<pipevars, news_state, call>>

\* the page is reloaded: the component and its requests are gone,
\* localStorage stays
reload ==
    /\ app.mounted
    /\ app.page_loads <= MaxReloads
    /\ app' = [AppState EXCEPT !.page_loads = app.page_loads]
    /\ UNCHANGED <<pipevars, news_state, call, localStorage>>

\* a handler has set the state to s: the render and its effects follow
Rendered(s) ==
    /\ app.mounted
    /\ Len(render(app, s).requests) <= MaxRequests
    /\ app' = render(app, s)
    /\ UNCHANGED <<pipevars, news_state, call, localStorage>>

setActiveTab(tab) ==
    /\ app.activePage = "home"
    /\ Rendered([app EXCEPT !.activeTab = tab])

setActivePage(page) == Rendered([app EXCEPT !.activePage = page])

\* onChange of the search box
setSearchQuery(text) == Rendered([app EXCEPT !.searchQuery = text])

\* handleSearch(query) up to its await: the request is sent
Searching(s, text) ==
    [s EXCEPT !.isSearching = TRUE, !.activePage = "home",
              !.requests = Append(@, [kind |-> "search", arg |-> text,
                                      by |-> "search", state |-> "pending"])]

\* Enter in the search box: handleSearch() with the text of the box
handleSearch ==
    /\ app.searchQuery # ""
    /\ Rendered(Searching(app, app.searchQuery))

\* a quick tag: setSearchQuery(tag.query); handleSearch(tag.query)
quick_search(text) ==
    /\ text # ""
    /\ Rendered(Searching([app EXCEPT !.searchQuery = text], text))

\* the button of the header: setAutoRefreshEnabled(!autoRefreshEnabled)
toggleAutoRefresh ==
    Rendered([app EXCEPT !.autoRefreshEnabled = ~app.autoRefreshEnabled])

\* the callback of the interval
interval_tick ==
    /\ app.interval.registered
    /\ IF app.interval.activePage = "home" /\ app.interval.searchQuery = ""
       THEN Rendered(loadFeed(app, app.interval.activeTab, "interval"))
       ELSE Rendered(app)

\* the request sent n-th settles: loadFeed and handleSearch after their
\* await, with the catch and the finally
settle(n, ok, counts) ==
    /\ n \in 1..Len(app.requests)
    /\ app.requests[n].state = "pending"
    /\ LET data == Response(app.requests[n].kind, app.requests[n].arg)
           initialUpvotes == [id \in Members(data) |-> counts[id]]
       IN  Rendered(
             IF ok
             THEN [app EXCEPT !.results = data,
                              !.upvotes = initialUpvotes,
                              !.initialUpvotes = initialUpvotes,
                              !.isSearching = FALSE,
                              !.requests[n].state = "ok"]
             ELSE [app EXCEPT !.isSearching = FALSE,
                              !.requests[n].state = "failed"])

toggleBookmark(id) ==
    /\ id \in Visible(app)
    /\ LET next == IF id \in Members(app.bookmarks)
                   THEN SelectSeq(app.bookmarks, LAMBDA b : b # id)
                   ELSE Append(app.bookmarks, id)
       IN  /\ app' = [app EXCEPT !.bookmarks = next]
           /\ localStorage' = [localStorage EXCEPT !.tradl_bookmarks = stringify(next)]
    /\ app.mounted
    /\ UNCHANGED <<pipevars, news_state, call>>

toggleUpvote(id) ==
    /\ id \in Visible(app)
    /\ Rendered(
         IF id \in app.userUpvotes
         THEN [app EXCEPT !.userUpvotes = @ \ {id},
                          !.upvotes = [i \in DOMAIN @ \cup {id} |->
                                        IF i = id THEN UpvoteCount(app, id) - 1 ELSE @[i]]]
         ELSE [app EXCEPT !.userUpvotes = @ \cup {id},
                          !.upvotes = [i \in DOMAIN @ \cup {id} |->
                                        IF i = id THEN UpvoteCount(app, id) + 1 ELSE @[i]]])

\* the articles the responses carry
FeedArticles == Members(Response("search", "RBI")) \cup Members(Response("feed", "for-you"))
                    \cup Members(Response("feed", "latest"))

\* every article gets the lowest base count
LowestCounts == [id \in FeedArticles |-> 5]

AppNext ==
    \/ mount
    \/ \E tab \in Tabs : setActiveTab(tab)
    \/ \E page \in Pages : setActivePage(page)
    \/ \E text \in Queries : setSearchQuery(text)
    \/ handleSearch
    \/ \E text \in Queries : quick_search(text)
    \/ toggleAutoRefresh
    \/ interval_tick
    \/ \E n \in 1..MaxRequests, ok \in BOOLEAN : settle(n, ok, LowestCounts)

\* the dashboard and its requests: navigation, searches, the interval and
\* the responses of the backend, which settle in any order
AppSpec == Init /\ [][AppNext]_vars

BookmarkNext ==
    \/ mount
    \/ reload
    \/ \E page \in Pages : setActivePage(page)
    \/ \E n \in 1..MaxRequests : settle(n, TRUE, LowestCounts)
    \/ \E id \in FeedArticles : toggleBookmark(id)

\* bookmarks across reloads of the page
BookmarkSpec == Init /\ [][BookmarkNext]_vars

UpvoteNext ==
    \/ mount
    \/ \E tab \in Tabs : setActiveTab(tab)
    \/ \E text \in Queries : quick_search(text)
    \/ \E n \in 1..MaxRequests, counts \in [FeedArticles -> BaseCounts] :
            settle(n, TRUE, counts)
    \/ \E id \in FeedArticles : toggleUpvote(id)

\* upvotes across feed loads and searches
UpvoteSpec == Init /\ [][UpvoteNext]_vars

\* ------------------------------------------------------------------ claims
Last(seq) == seq[Len(seq)]

Checked(a) == is_duplicate[a] # "unset"

\* the threshold the documentation gives for duplicates (Settings.dedup_threshold)
dedup_threshold == 70

\* best similarity among the neighbours the query returns, -1 without any
Best(c, coll) ==
    IF query(coll, c) = {} THEN 0 - 1
    ELSE LET i == CHOOSE k \in query(coll, c) :
                    \A j \in query(coll, c) :
                        Similarity(coll[k].document, c) >= Similarity(coll[j].document, c)
         IN  Similarity(coll[i].document, c)

C2_ThresholdInclusive70 ==
    \A c \in Contents, id \in ArticleIds \ DOMAIN collection :
        LET r == check_duplicate(id, c, collection) IN
        /\ r.is_duplicate <=> Best(c, collection) >= dedup_threshold
        /\ r.is_duplicate =>
              \E i \in query(collection, c) :
                  /\ Similarity(collection[i].document, c) = Best(c, collection)
                  /\ r.cluster_id = collection[i].cluster_id
        /\ ~r.is_duplicate => r.cluster_id = id

C4_LaterDuplicateDetected ==
    [][\A b \in ArticleIds :
        (~Checked(b) /\ is_duplicate'[b] # "unset") =>
            /\ \A a \in ArticleIds :
                  ( /\ a < b
                    /\ result[a] = "stored"
                    /\ Similarity(normalized_content[a], normalized_content[b])
                          >= dedup_threshold
                    /\ \A x \in DOMAIN collection \ {a} :
                          Similarity(collection[x].document, normalized_content[b])
                              < dedup_threshold )
                  => /\ is_duplicate'[b] = "true"
                     /\ duplicate_cluster_id'[b] = duplicate_cluster_id[a]
            /\ (\A x \in DOMAIN collection :
                    Similarity(collection[x].document, normalized_content[b])
                        < dedup_threshold)
                  => is_duplicate'[b] = "false"
      ]_vars

\* C5: two near-duplicate articles (similarity >= 0.70) ingested concurrently
\* are never both classified unique with neither write visible to the other's
\* duplicate check.
C5_NoConcurrentDoubleUnique ==
    \A a, b \in ArticleIds :
        ( /\ a # b
          /\ a \in InFlight /\ b \in InFlight
          /\ Similarity(normalized_content[a], normalized_content[b])
                >= dedup_threshold )
        => ~( /\ is_duplicate[a] = "false" /\ is_duplicate[b] = "false"
              /\ a \notin DOMAIN collection /\ b \notin DOMAIN collection )

C7_DuplicateRecordAdded ==
    \A b \in ArticleIds :
        result[b] = "duplicate" =>
            /\ b \in DOMAIN collection
            /\ b \in DOMAIN postgres
            /\ postgres[b].is_duplicate = TRUE
            /\ postgres[b].cluster_id = duplicate_cluster_id[b]

\* C8: after store was called twice with the same article id, each store
\* holds exactly one record for the id, with the content of the second call.
C8_RestoreOverwrites ==
    \A a \in ArticleIds :
        (result[a] = "stored" /\ last_store[a] # NoContent) =>
            /\ a \in DOMAIN collection /\ collection[a].document = last_store[a]
            /\ a \in DOMAIN postgres /\ postgres[a].content = last_store[a]

Collected ==
    IF call.fn = "map_impact" THEN RawImpacts(call.args) ELSE call.args

ScoreReturned == call.fn \in {"map_impact", "deduplicate_and_rank"} /\ call.returned

\* C12: the list score returns has at most one entry for each (stock, impact
\* type) pair; the entry of a pair carries the largest confidence any path
\* gave the pair, and every pair that was produced is kept, so one stock may
\* appear once for each impact type.
C12_OneEntryPerPair ==
    ScoreReturned =>
        /\ \A i, j \in 1..Len(call.result) :
              SamePair(call.result[i], call.result[j]) => i = j
        /\ \A k \in 1..Len(Collected) :
              \E i \in 1..Len(call.result) :
                  /\ SamePair(call.result[i], Collected[k])
                  /\ call.result[i].confidence >= Collected[k].confidence
        /\ \A i \in 1..Len(call.result) :
              \E k \in 1..Len(Collected) :
                  /\ SamePair(call.result[i], Collected[k])
                  /\ call.result[i].confidence = Collected[k].confidence

C12_Witness ==
    /\ ScoreReturned
    /\ \E k, m \in 1..Len(Collected) :
          SamePair(Collected[k], Collected[m]) /\ Collected[k].confidence < Collected[m].confidence
    /\ \E i, j \in 1..Len(call.result) :
          /\ call.result[i].stock = call.result[j].stock
          /\ call.result[i].type # call.result[j].type

\* C13: the list score returns is in descending order of confidence, and
\* entries of equal confidence are in the order direct, sector, regulatory,
\* supply_chain of their impact type.
C13_RankedByConfidenceThenType ==
    ScoreReturned =>
        \A i, j \in 1..Len(call.result) :
            i < j =>
                \/ call.result[i].confidence > call.result[j].confidence
                \/ /\ call.result[i].confidence = call.result[j].confidence
                   /\ TypePriority[call.result[i].type] <= TypePriority[call.result[j].type]

C13_Witness ==
    /\ ScoreReturned
    /\ \E i, j, k \in 1..Len(call.result) :
          /\ i < j /\ j < k
          /\ call.result[i].confidence > call.result[j].confidence
          /\ call.result[j].confidence = call.result[k].confidence
          /\ TypePriority[call.result[j].type] < TypePriority[call.result[k].type]
    /\ \E m, n \in 1..Len(call.args) :
          /\ m < n
          /\ call.fn = "deduplicate_and_rank"
          /\ call.args[m].confidence = call.args[n].confidence
          /\ TypePriority[call.args[m].type] > TypePriority[call.args[n].type]

Min(x, y) == IF x < y THEN x ELSE y

\* the company entities of the call that name the company of a ticker
Mentioning(stock) ==
    {k \in 1..Len(call.args) :
        /\ call.args[k].type = "COMPANY"
        /\ COMPANIES[call.args[k].value].symbol = stock}

\* the distinct companies of the sector of a ticker that the call names
directMentionsInSector(stock) ==
    Cardinality({call.args[k].value : k \in
        {m \in 1..Len(call.args) :
            /\ call.args[m].type = "COMPANY"
            /\ \E n \in DOMAIN COMPANIES :
                  /\ COMPANIES[n].symbol = stock
                  /\ COMPANIES[n].sector = COMPANIES[call.args[m].value].sector}})

\* C14: every confidence score returns lies in the band of its impact type:
\* direct is min(1.0, the entity's confidence); sector is
\* 0.6 + 0.2 * min(1, directMentionsInSector / 3), within [0.6, 0.8];
\* regulatory is within [0.3, 0.7]; supply_chain is 0.5 times the confidence
\* of the impact it was propagated from.
C14_ConfidenceBands ==
    (call.fn = "map_impact" /\ call.returned) =>
        \A i \in 1..Len(call.result) :
            LET e == call.result[i] IN
            /\ e.type = "DIRECT" =>
                  \E k \in Mentioning(e.stock) :
                      /\ e.confidence = Min(100, call.args[k].confidence)
                      /\ \A m \in Mentioning(e.stock) :
                            call.args[m].confidence <= call.args[k].confidence
            /\ e.type = "SECTOR" =>
                  /\ e.confidence =
                        60 + (20 * Min(3, directMentionsInSector(e.stock))) \div 3
                  /\ e.confidence >= 60 /\ e.confidence <= 80
            /\ e.type = "REGULATORY" => (e.confidence >= 30 /\ e.confidence <= 70)
            /\ e.type = "SUPPLY_CHAIN" =>
                  \E j \in 1..Len(call.result) :
                      /\ call.result[j].type \in {"DIRECT", "SECTOR"}
                      /\ 2 * e.confidence = call.result[j].confidence

Searched == call.fn = "search" /\ call.returned

DetectedTypes ==
    {call.result.analysis.detectedEntities[k].type :
        k \in 1..Len(call.result.analysis.detectedEntities)}

QueryWords == {call.args.tokens[k] : k \in 1..Len(call.args.tokens)}

FoundBy(id) ==
    LET ents == call.result.analysis.detectedEntities IN
    (IF \E k \in 1..Len(semantic_search(call.args.sims, call.args.limit)) :
            semantic_search(call.args.sims, call.args.limit)[k].id = id
     THEN {"semantic"} ELSE {})
    \cup (IF has_direct_entity_match(ents, id) THEN {"entity"} ELSE {})
    \cup (IF has_sector_match(ents, id) THEN {"sector"} ELSE {})

\* C18: the result list of search holds every article id at most once, also
\* when the article was returned by several of the semantic, entity-filter
\* and sector-filter strategies.
C18_ResultIdsDistinct ==
    Searched =>
        \A i, j \in 1..Len(call.result.results) :
            call.result.results[i].id = call.result.results[j].id => i = j

C18_Witness ==
    /\ Searched
    /\ call.args.chroma = "ok"
    /\ \E i \in 1..Len(call.result.results) :
          FoundBy(call.result.results[i].id) = {"semantic", "entity", "sector"}

\* the candidates of the call after the merge, with their scores
MergedScored ==
    LET ents == call.result.analysis.detectedEntities IN
    WithScores(ents,
        merge(semantic_search(call.args.sims, call.args.limit),
              entity_search(ents), sector_search(ents)))

\* C19: search returns at most limit results; they are the highest-scoring
\* merged candidates, in descending order of the final score, and of two
\* results of equal score the more recently published one comes first.
C19_TopLimitByScoreThenRecency ==
    (Searched /\ call.result.status = "ok") =>
        LET res == call.result.results IN
        /\ Len(res) <= call.args.limit
        /\ Len(res) = Min(call.args.limit, Len(MergedScored))
        /\ \A i, j \in 1..Len(res) :
              i < j =>
                  \/ res[i].final_score > res[j].final_score
                  \/ /\ res[i].final_score = res[j].final_score
                     /\ Corpus[res[i].id].days_old <= Corpus[res[j].id].days_old
        /\ \A k \in 1..Len(MergedScored) :
              (\A i \in 1..Len(res) : res[i].id # MergedScored[k].id) =>
                  \A i \in 1..Len(res) : res[i].final_score >= MergedScored[k].final_score

\* C20: with the vector store unreachable search still answers: it returns
\* the results of the entity and sector filters with a semantic term of zero
\* and signals that the semantic ranking was unavailable; every well-formed
\* query gets a result set, never an error.
C20_DegradesWithoutVectorStore ==
    Searched =>
        /\ call.result.status = "ok"
        /\ call.args.chroma = "unreachable" =>
              /\ call.result.degraded
              /\ \A i \in 1..Len(call.result.results) :
                    /\ call.result.results[i].vector_similarity = 0
                    /\ FoundBy(call.result.results[i].id) \cap {"entity", "sector"} # {}

\* the query with synthesis has returned
Answered == call.fn = "query_with_rag" /\ call.returned

\* what search alone returns for the arguments of the call
Retrieved ==
    search(call.args.tokens, call.args.limit, call.args.sims, call.args.chroma)

\* C21: when the answer-synthesis collaborator is absent or fails, the query
\* is not turned into an error: it returns the ranked results of search, with
\* no synthesized answer.
C21_SynthesisFailureIsNoAnswer ==
    (Answered /\ (~call.args.rag_enabled \/ call.args.llm # "ok")) =>
        /\ call.result.status = Retrieved.status
        /\ call.result.results = Retrieved.results
        /\ call.result.synthesized_answer = NoAnswer

\* the sectors the words of the query name
QueriedSectors == QueryWords \cap SECTORS

\* the stored articles tagged with a queried sector
Tagged == {id \in 1..Len(Corpus) : Corpus[id].sector \in QueriedSectors}

ResultIds == {call.result.results[i].id : i \in 1..Len(call.result.results)}

\* C22: a query that names a sector and no company reports the intent
\* sector_query, returns every stored article tagged with the sector, up to
\* limit of them, and returns no stored article that is unrelated to the
\* sector.
C22_SectorQueryResults ==
    ( /\ Searched /\ call.result.status = "ok"
      /\ QueriedSectors # {} /\ QueryWords \cap DOMAIN ALIASES = {} ) =>
        /\ call.result.analysis.intent = "sector_query"
        /\ Cardinality(ResultIds \cap Tagged) = Min(call.args.limit, Cardinality(Tagged))
        /\ \A id \in ResultIds :
              \/ id \in Tagged
              \/ has_direct_entity_match(call.result.analysis.detectedEntities, id)

\* the score of the formula of specification 4.7 for a result, in
\* thousandths, without the term of the representative article:
\* 0.4 * semanticSimilarity + 0.3 for a direct entity match + 0.15 for a
\* sector match + 0.2 * recencyBonus
FormulaScore(r) ==
    LET ents == call.result.analysis.detectedEntities
        recencyBonus == IF 200 - 20 * Corpus[r.id].days_old > 0
                        THEN 200 - 20 * Corpus[r.id].days_old ELSE 0
    IN  4 * r.vector_similarity
        + (IF has_direct_entity_match(ents, r.id) THEN 300 ELSE 0)
        + (IF has_sector_match(ents, r.id) THEN 150 ELSE 0)
        + (2 * recencyBonus) \div 10

\* C25: the final score of every result is 0.4 * semanticSimilarity, plus
\* 0.3 for a direct entity match, plus 0.15 for a sector match (a result with
\* both gets both), plus 0.2 * max(0, 0.2 - 0.02 * daysSincePublished), with
\* 0.1 in favour of a representative article over a duplicate-linked one
\* (added for the one or taken off the other); of two results that are
\* otherwise tied the representative comes first.
C25_FinalScoreFormula ==
    (Searched /\ call.result.status = "ok") =>
        LET res == call.result.results IN
        /\ \/ \A i \in 1..Len(res) :
                 res[i].final_score = FormulaScore(res[i])
                     + (IF Corpus[res[i].id].is_original THEN 100 ELSE 0)
           \/ \A i \in 1..Len(res) :
                 res[i].final_score = FormulaScore(res[i])
                     - (IF Corpus[res[i].id].is_original THEN 0 ELSE 100)
        /\ \A i, j \in 1..Len(res) :
              ( /\ FormulaScore(res[i]) = FormulaScore(res[j])
                /\ Corpus[res[i].id].is_original /\ ~Corpus[res[j].id].is_original )
              => i < j

MapImpactReturned == call.fn = "map_impact" /\ call.returned

SectorOfStock(stock) ==
    COMPANIES[CHOOSE n \in DOMAIN COMPANIES : COMPANIES[n].symbol = stock].sector

\* the sectors with a direct or sector impact in the returned list
ImpactedSectors ==
    {SectorOfStock(call.result[i].stock) :
        i \in {k \in 1..Len(call.result) : call.result[k].type \in {"DIRECT", "SECTOR"}}}

\* the sectors one adjacency step away from an impacted sector
AdjacentSectors ==
    UNION {{supply_chain[s][k] : k \in 1..Len(supply_chain[s])} :
                s \in ImpactedSectors \cap DOMAIN supply_chain}

StoredBookmarks ==
    IF localStorage.tradl_bookmarks.present
    THEN Members(parse(localStorage.tradl_bookmarks))
    ELSE {}

IntervalLoad ==
    /\ Len(app'.requests) = Len(app.requests) + 1
    /\ app'.requests[Len(app'.requests)].by = "interval"

\* C24: the interval of the auto-refresh calls loadFeed only while
\* auto-refresh is enabled, the active page is home and the search query is
\* empty, with the active tab; while auto-refresh is toggled off no interval
\* is set, so no feed reload comes from the timer until it is toggled on
\* again.
C24_AutoRefreshGuard ==
    /\ [](app.interval.registered <=> (app.mounted /\ app.autoRefreshEnabled))
    /\ [][IntervalLoad =>
            /\ app.autoRefreshEnabled
            /\ app.activePage = "home"
            /\ app.searchQuery = ""
            /\ app'.requests[Len(app'.requests)].arg = app.activeTab
         ]_vars

C24_Witness ==
    /\ app.mounted
    /\ ~app.autoRefreshEnabled
    /\ \E n \in 1..Len(app.requests) : app.requests[n].by = "interval"

Pending == {n \in 1..Len(app.requests) : app.requests[n].state = "pending"}

\* C28: when every request of the dashboard has settled, the results shown
\* are those of the request that was sent last (if it succeeded): the
\* response of an earlier, slower request does not overwrite them.
C28_LatestRequestWins ==
    ( /\ app.requests # <<>> /\ Pending = {}
      /\ app.requests[Len(app.requests)].state = "ok" ) =>
        app.results = Response(app.requests[Len(app.requests)].kind,
                               app.requests[Len(app.requests)].arg)

\* C30: isSearching is true while a feed-load or search request is
\* outstanding and false once every request has settled, with or without
\* success.
C30_IsSearchingWhileOutstanding ==
    app.isSearching <=> Pending # {}

\* C29: the upvote count of every displayed article is the base count of the
\* last load, plus 1 when the article id is in userUpvotes; toggleUpvote
\* flips the flag of the article and moves its count by one, up when the flag
\* is set and down when it is cleared, so that two calls restore both.
C29_UpvoteCountIsBasePlusFlag ==
    /\ [](\A id \in Members(app.results) :
            UpvoteCount(app, id) =
                app.initialUpvotes[id] + (IF id \in app.userUpvotes THEN 1 ELSE 0))
    /\ [][\A id \in FeedArticles :
            (id \in app.userUpvotes) # (id \in app'.userUpvotes) =>
                UpvoteCount(app', id) =
                    UpvoteCount(app, id) + (IF id \in app'.userUpvotes THEN 1 ELSE 0 - 1)
         ]_vars
====
